---- MODULE Spec2Model ----
(***************************************************************************)
(* Orbiting camera of the renderer: CameraController (key intents,         *)
(* update_camera, recalculate_up) from src/types/camera.rs and the parts   *)
(* of State and the event loop of src/lib.rs that drive it.                *)
(*                                                                         *)
(* Numbers.  An f32 is modelled by an exact rational <<n, d>> in lowest    *)
(* terms with d > 0, or by one of the three IEEE specials, written with a  *)
(* zero denominator: <<0, 0>> is NaN, <<1, 0>> is +inf, <<-1, 0>> is -inf. *)
(* Rounding error of f32 is outside the model, and so is the sign of       *)
(* zero: every zero is +0.0.  Square roots are taken exactly; the model    *)
(* only ever meets squares of rationals, and TLC stops with an error if    *)
(* it meets anything else.                                                 *)
(*                                                                         *)
(* Angles.  PI is the rational 22/7 and cos / sin read a table of twelve   *)
(* rational points of the unit circle, one per PI/6, so that               *)
(* cos^2 + sin^2 = 1 holds exactly as it does for real numbers.  The       *)
(* controller speed is PI/6 (one table step per update) instead of the     *)
(* 0.05 of State::new, so that a full turn takes 12 updates, not 126.      *)
(***************************************************************************)
EXTENDS Integers, Sequences, FiniteSets, TLC

----------------------------------------------------------------------------
(* f32 arithmetic *)

IAbs(i) == IF i < 0 THEN -i ELSE i

ISign(i) == IF i < 0 THEN -1 ELSE IF i > 0 THEN 1 ELSE 0

RECURSIVE Gcd(_, _)
Gcd(a, b) == IF b = 0 THEN a ELSE Gcd(b, a % b)

\* the f32 with value n / d; n / 0 is +inf, -inf or NaN by the sign of n
Rat(n, d) ==
    IF d = 0 THEN <<ISign(n), 0>>
    ELSE LET g == Gcd(IAbs(n), IAbs(d))
         IN  <<ISign(d) * (n \div g), IAbs(d) \div g>>

NaN  == <<0, 0>>
Zero == <<0, 1>>
One  == <<1, 1>>

IsNaN(a)    == a[2] = 0 /\ a[1] = 0
IsInf(a)    == a[2] = 0 /\ a[1] # 0
IsFinite(a) == a[2] # 0

RNeg(a) == <<-a[1], a[2]>>

RAdd(a, b) ==
    IF IsNaN(a) \/ IsNaN(b) THEN NaN
    ELSE IF IsInf(a) /\ IsInf(b) THEN (IF a[1] = b[1] THEN a ELSE NaN)
    ELSE IF IsInf(a) THEN a
    ELSE IF IsInf(b) THEN b
    ELSE LET g == Gcd(a[2], b[2])
         IN  Rat(a[1] * (b[2] \div g) + b[1] * (a[2] \div g),
                 a[2] * (b[2] \div g))

RSub(a, b) == RAdd(a, RNeg(b))

RMul(a, b) ==
    IF IsNaN(a) \/ IsNaN(b) THEN NaN
    ELSE IF IsInf(a) \/ IsInf(b)
         THEN (IF a[1] = 0 \/ b[1] = 0 THEN NaN
               ELSE <<ISign(a[1]) * ISign(b[1]), 0>>)
    ELSE IF a[1] = 0 \/ b[1] = 0 THEN Zero
    ELSE LET g1 == Gcd(IAbs(a[1]), b[2])
             g2 == Gcd(IAbs(b[1]), a[2])
         IN  <<(a[1] \div g1) * (b[1] \div g2),
               (a[2] \div g2) * (b[2] \div g1)>>

RDiv(a, b) ==
    IF IsNaN(a) \/ IsNaN(b) THEN NaN
    ELSE IF IsInf(b) THEN (IF IsInf(a) THEN NaN ELSE Zero)
    ELSE IF b[1] = 0
         THEN (IF a[1] = 0 THEN NaN ELSE <<ISign(a[1]), 0>>)
    ELSE RMul(a, <<ISign(b[1]) * b[2], IAbs(b[1])>>)

\* a < b, a <= b, a > b, a >= b of f32: every comparison with NaN is false
RLt(a, b) ==
    IF IsNaN(a) \/ IsNaN(b) THEN FALSE
    ELSE IF IsInf(a) /\ IsInf(b) THEN a[1] < b[1]
    ELSE IF IsInf(a) THEN a[1] < 0
    ELSE IF IsInf(b) THEN b[1] > 0
    ELSE a[1] * b[2] < b[1] * a[2]

REq(a, b) == ~IsNaN(a) /\ ~IsNaN(b) /\ a = b
RLe(a, b) == RLt(a, b) \/ REq(a, b)
RGt(a, b) == RLt(b, a)
RGe(a, b) == RLe(b, a)

\* f32::abs
RAbs(a) == <<IAbs(a[1]), a[2]>>

\* f32::signum: 1.0 for +0.0 and above, -1.0 below, NaN for NaN
RSignum(a) == IF IsNaN(a) THEN NaN ELSE IF a[1] < 0 THEN RNeg(One) ELSE One

RECURSIVE ISqrtIter(_, _)
ISqrtIter(n, x) ==
    LET y == (x + n \div x) \div 2
    IN  IF y >= x THEN x ELSE ISqrtIter(n, y)

\* the exact integer square root of a perfect square
ISqrt(n) ==
    IF n = 0 THEN 0
    ELSE CHOOSE r \in {ISqrtIter(n, n)} : r * r = n

\* f32::sqrt
RSqrt(a) ==
    IF IsNaN(a) \/ a[1] < 0 THEN NaN
    ELSE IF IsInf(a) THEN a
    ELSE <<ISqrt(a[1]), ISqrt(a[2])>>

\* floor of a finite f32, as an integer
RFloor(a) == a[1] \div a[2]

\* f32::rem_euclid for a positive finite modulus m
RemEuclid(a, m) ==
    IF ~IsFinite(a) THEN NaN
    ELSE RSub(a, RMul(m, Rat(RFloor(RDiv(a, m)), 1)))

----------------------------------------------------------------------------
(* cgmath Vector3 / Point3 *)

Vec(x, y, z) == <<x, y, z>>

VAdd(a, b) == <<RAdd(a[1], b[1]), RAdd(a[2], b[2]), RAdd(a[3], b[3])>>
VSub(a, b) == <<RSub(a[1], b[1]), RSub(a[2], b[2]), RSub(a[3], b[3])>>
VScale(a, k) == <<RMul(a[1], k), RMul(a[2], k), RMul(a[3], k)>>

Dot(a, b) == RAdd(RAdd(RMul(a[1], b[1]), RMul(a[2], b[2])), RMul(a[3], b[3]))

Cross(a, b) ==
    <<RSub(RMul(a[2], b[3]), RMul(a[3], b[2])),
      RSub(RMul(a[3], b[1]), RMul(a[1], b[3])),
      RSub(RMul(a[1], b[2]), RMul(a[2], b[1]))>>

Magnitude(a) == RSqrt(Dot(a, a))

\* InnerSpace::normalize: self * (1 / self.magnitude())
Normalize(a) == VScale(a, RDiv(One, Magnitude(a)))

VHasNaN(a) == IsNaN(a[1]) \/ IsNaN(a[2]) \/ IsNaN(a[3])

----------------------------------------------------------------------------
(* angles *)

PI == <<22, 7>>

\* 2.0 * PI
TwoPI == <<44, 7>>

\* the table step PI / 6
TrigStep == <<11, 21>>

\* (cos, sin) at k * PI/6, k = 0..11
TrigTable ==
    << << <<1, 1>>, <<0, 1>> >>,    << <<4, 5>>, <<3, 5>> >>,
       << <<3, 5>>, <<4, 5>> >>,    << <<0, 1>>, <<1, 1>> >>,
       << <<-3, 5>>, <<4, 5>> >>,   << <<-4, 5>>, <<3, 5>> >>,
       << <<-1, 1>>, <<0, 1>> >>,   << <<-4, 5>>, <<-3, 5>> >>,
       << <<-3, 5>>, <<-4, 5>> >>,  << <<0, 1>>, <<-1, 1>> >>,
       << <<3, 5>>, <<-4, 5>> >>,   << <<4, 5>>, <<-3, 5>> >> >>

\* index of the table entry nearest to the angle a
TrigIndex(a) ==
    (RFloor(RAdd(RDiv(RemEuclid(a, TwoPI), TrigStep), <<1, 2>>)) % 12) + 1

\* f32::cos, f32::sin
Cos(a) == IF ~IsFinite(a) THEN NaN ELSE TrigTable[TrigIndex(a)][1]
Sin(a) == IF ~IsFinite(a) THEN NaN ELSE TrigTable[TrigIndex(a)][2]

----------------------------------------------------------------------------
(* bounds of the model *)

\* keys the keyboard reports as held down at the same time
MaxHeld == 2

\* rotation.x stays within -MaxPitchUp .. MaxPitchDown steps of speed
MaxPitchUp == 4
MaxPitchDown == 16

\* rotation.y and rotation.z stay within -Max .. Max steps of speed
MaxYaw == 1
MaxRoll == 1

----------------------------------------------------------------------------
(* src/types/camera.rs *)

\* CameraController::new(speed)
CameraController_new(speed) ==
    [speed |-> speed,
     is_forward_pressed |-> FALSE,
     is_backward_pressed |-> FALSE,
     is_left_pressed |-> FALSE,
     is_right_pressed |-> FALSE,
     is_up_pressed |-> FALSE,
     is_down_pressed |-> FALSE,
     is_zcw_pressed |-> FALSE,
     is_zccw_pressed |-> FALSE,
     is_debug_pressed |-> FALSE]

\* lines 112-149: the match on the key code; self and the value returned
match_keycode(self, keycode, is_pressed) ==
    CASE keycode \in {"KeyW", "ArrowUp"} ->
           [self |-> [self EXCEPT !.is_forward_pressed = is_pressed],
            ret |-> TRUE]
      [] keycode \in {"KeyA", "ArrowLeft"} ->
           [self |-> [self EXCEPT !.is_left_pressed = is_pressed],
            ret |-> TRUE]
      [] keycode \in {"KeyS", "ArrowDown"} ->
           [self |-> [self EXCEPT !.is_backward_pressed = is_pressed],
            ret |-> TRUE]
      [] keycode \in {"KeyD", "ArrowRight"} ->
           [self |-> [self EXCEPT !.is_right_pressed = is_pressed],
            ret |-> TRUE]
      [] keycode = "KeyE" ->
           [self |-> [self EXCEPT !.is_up_pressed = is_pressed],
            ret |-> TRUE]
      [] keycode = "KeyQ" ->
           [self |-> [self EXCEPT !.is_down_pressed = is_pressed],
            ret |-> TRUE]
      [] keycode = "KeyC" ->
           [self |-> [self EXCEPT !.is_zcw_pressed = is_pressed],
            ret |-> TRUE]
      [] keycode = "KeyZ" ->
           [self |-> [self EXCEPT !.is_zccw_pressed = is_pressed],
            ret |-> TRUE]
      [] keycode = "Backquote" ->
           [self |-> [self EXCEPT !.is_debug_pressed = is_pressed],
            ret |-> TRUE]
      [] OTHER -> [self |-> self, ret |-> FALSE]

\* process_events with the comparison of the key state inverted
process_events_inverted(self, event) ==
    IF event.type = "KeyboardInput" /\ event.physical_key # "Unidentified"
    THEN match_keycode(self, event.physical_key, event.state = "Released")
    ELSE [self |-> self, ret |-> FALSE]

\* process_events with the outer `_ => false` arm returning true
process_events_consuming(self, event) ==
    IF event.type = "KeyboardInput" /\ event.physical_key # "Unidentified"
    THEN match_keycode(self, event.physical_key, event.state = "Pressed")
    ELSE [self |-> self, ret |-> TRUE]

\* process_events matching only ElementState::Pressed, as the Escape arm of
\* run does: a release changes nothing
process_events_press_only(self, event) ==
    IF /\ event.type = "KeyboardInput"
       /\ event.physical_key # "Unidentified"
       /\ event.state = "Pressed"
    THEN match_keycode(self, event.physical_key, TRUE)
    ELSE [self |-> self, ret |-> FALSE]

\* process_events: self and the value returned.  An event is a record with
\* a type; a KeyboardInput has a state and a physical_key, which is the key
\* code of PhysicalKey::Code or "Unidentified"
process_events(self, event) ==
    IF event.type = "KeyboardInput" /\ event.physical_key # "Unidentified"
    THEN match_keycode(self, event.physical_key, event.state = "Pressed")
    ELSE [self |-> self, ret |-> FALSE]

\* lines 157-168: the eye after the forward / backward steps
Dolly(self, camera) ==
    LET forward == VSub(camera.target, camera.eye)
        forward_norm == Normalize(forward)
        forward_mag == Magnitude(forward)
        eye1 == IF self.is_forward_pressed /\ RGt(forward_mag, self.speed)
                THEN VAdd(camera.eye, VScale(forward_norm, self.speed))
                ELSE camera.eye
    IN  IF self.is_backward_pressed
        THEN VSub(eye1, VScale(forward_norm, self.speed))
        ELSE eye1

\* Accumulate with the pitch stored reduced into [0, 2 PI)
Accumulate_wrapped(self, rotation) ==
    LET y1 == IF self.is_right_pressed
              THEN RAdd(rotation[2], self.speed) ELSE rotation[2]
        y2 == IF self.is_left_pressed THEN RSub(y1, self.speed) ELSE y1
        x1 == IF self.is_down_pressed
              THEN RAdd(rotation[1], self.speed) ELSE rotation[1]
        x2 == IF self.is_up_pressed THEN RSub(x1, self.speed) ELSE x1
        z1 == IF self.is_zcw_pressed
              THEN RAdd(rotation[3], self.speed) ELSE rotation[3]
        z2 == IF self.is_zccw_pressed THEN RSub(z1, self.speed) ELSE z1
    IN  Vec(RemEuclid(x2, TwoPI), y2, z2)

\* lines 170-187: the accumulated angles after the six rotation steps
Accumulate(self, rotation) ==
    LET y1 == IF self.is_right_pressed
              THEN RAdd(rotation[2], self.speed) ELSE rotation[2]
        y2 == IF self.is_left_pressed THEN RSub(y1, self.speed) ELSE y1
        x1 == IF self.is_down_pressed
              THEN RAdd(rotation[1], self.speed) ELSE rotation[1]
        x2 == IF self.is_up_pressed THEN RSub(x1, self.speed) ELSE x1
        z1 == IF self.is_zcw_pressed
              THEN RAdd(rotation[3], self.speed) ELSE rotation[3]
        z2 == IF self.is_zccw_pressed THEN RSub(z1, self.speed) ELSE z1
    IN  Vec(x2, y2, z2)

\* SphericalForward without the factor forward_mag
SphericalForward_unit(forward_mag, rotation) ==
    Vec(RMul(Cos(rotation[1]), Cos(rotation[2])),
        Sin(rotation[1]),
        RMul(Cos(rotation[1]), Sin(rotation[2])))

\* lines 190-194: forward from its magnitude and the pitch and yaw angles
SphericalForward(forward_mag, rotation) ==
    Vec(RMul(RMul(forward_mag, Cos(rotation[1])), Cos(rotation[2])),
        RMul(forward_mag, Sin(rotation[1])),
        RMul(RMul(forward_mag, Cos(rotation[1])), Sin(rotation[2])))

\* RepositionEye without the subtraction
RepositionEye_at_target(target, forward) == target

\* line 196
RepositionEye(target, forward) == VSub(target, forward)

\* lines 231-240 and 243-251: v turned about forward by the roll angle
RollAbout(v, forward, forward_dot, cos_z, sin_z) ==
    LET parallel == VScale(forward, RDiv(Dot(v, forward), forward_dot))
        orthogonal == VSub(v, parallel)
        w == Cross(forward, orthogonal)
        orthogonal_magnitude == Magnitude(orthogonal)
        x1 == RDiv(cos_z, orthogonal_magnitude)
        x2 == RDiv(sin_z, Magnitude(w))
        orthogonal_rotated ==
            VScale(VAdd(VScale(orthogonal, x1), VScale(w, x2)),
                   orthogonal_magnitude)
    IN  VAdd(orthogonal_rotated, parallel)

\* PitchFlips with the first range closed at pi/4 and the second closed at
\* 3 pi/2
PitchFlips_closed(camera_rotation_x) ==
    \/ /\ RGe(camera_rotation_x, RMul(Rat(1, 4), PI))
       /\ RLe(camera_rotation_x, RMul(Rat(1, 2), PI))
    \/ /\ RGe(camera_rotation_x, RMul(Rat(3, 4), PI))
       /\ RLe(camera_rotation_x, RMul(Rat(3, 2), PI))

\* lines 225-226
PitchFlips(camera_rotation_x) ==
    \/ /\ RGt(camera_rotation_x, RMul(Rat(1, 4), PI))
       /\ RLe(camera_rotation_x, RMul(Rat(1, 2), PI))
    \/ /\ RGe(camera_rotation_x, RMul(Rat(3, 4), PI))
       /\ RLt(camera_rotation_x, RMul(Rat(3, 2), PI))

\* lines 210-214: the right vector before the roll
RightOf(forward) ==
    LET right == Normalize(Cross(forward, Vec(Zero, One, Zero)))
    IN  Vec(RMul(RAbs(right[1]), RSignum(forward[3])),
            right[2],
            RMul(RAbs(right[3]), RNeg(RSignum(forward[1]))))

\* lines 217-220: the up vector before the flip and the roll
UpOf(forward, right) ==
    LET up == Normalize(Cross(forward, right))
    IN  Vec(RMul(RAbs(up[1]), RSignum(forward[1])),
            RAbs(up[2]),
            RMul(RAbs(up[3]), RSignum(forward[3])))

\* recalculate_up returning, when the debug intent is active, the up vector
\* it prints (the one of the previous frame) for the one it has computed
recalculate_up_debug_returns_printed(self, forward, camera) ==
    LET camera_rotation_x == RemEuclid(camera.rotation[1], TwoPI)
        sin_z == Sin(camera.rotation[3])
        cos_z == Cos(camera.rotation[3])
        right == RightOf(forward)
        up1 == UpOf(forward, right)
        up2 == IF PitchFlips(camera_rotation_x)
               THEN VScale(up1, RNeg(One)) ELSE up1
        forward_dot == Dot(forward, forward)
    IN  IF self.is_debug_pressed
        THEN camera.up
        ELSE RollAbout(up2, forward, forward_dot, cos_z, sin_z)

\* the up vector recalculate_up returns; lines 253-258 print and assign
\* nothing, so is_debug_pressed is not read here
recalculate_up(self, forward, camera) ==
    LET camera_rotation_x == RemEuclid(camera.rotation[1], TwoPI)
        sin_z == Sin(camera.rotation[3])
        cos_z == Cos(camera.rotation[3])
        right == RightOf(forward)
        up1 == UpOf(forward, right)
        up2 == IF PitchFlips(camera_rotation_x)
               THEN VScale(up1, RNeg(One)) ELSE up1
        forward_dot == Dot(forward, forward)
    IN  RollAbout(up2, forward, forward_dot, cos_z, sin_z)

\* Reorient with up carried forward: a NaN in the up of the previous frame
\* stays
Reorient_carrying(self, camera, forward) ==
    LET c3 == [camera EXCEPT !.eye = RepositionEye(camera.target, forward)]
    IN  IF VHasNaN(camera.up)
        THEN c3
        ELSE [c3 EXCEPT !.up = recalculate_up(self, forward, c3)]

\* lines 196-197: the eye put back on the orbit, then the new up, which is
\* computed from forward and rotation and not from the up of the frame before
Reorient(self, camera, forward) ==
    LET c3 == [camera EXCEPT !.eye = RepositionEye(camera.target, forward)]
    IN  [c3 EXCEPT !.up = recalculate_up(self, forward, c3)]

\* the camera after update_camera: forward_mag is taken from the eye of
\* the call, before the dolly and the rotation steps
update_camera(self, camera) ==
    LET forward_mag == Magnitude(VSub(camera.target, camera.eye))
        c2 == [camera EXCEPT !.eye = Dolly(self, camera),
                             !.rotation = Accumulate(self, camera.rotation)]
    IN  Reorient(self, c2, SphericalForward(forward_mag, c2.rotation))

\* the matrix of build_view_projection_matrix, kept as the term
\* OPENGL_TO_WGPU_MATRIX * perspective(fovy, aspect, znear, zfar)
\*                       * look_at_rh(eye, target, up) over its arguments
build_view_projection_matrix(self) ==
    [look_at_rh |-> <<self.eye, self.target, self.up>>,
     perspective |-> <<self.fovy, self.aspect, self.znear, self.zfar>>]

----------------------------------------------------------------------------
(* src/lib.rs *)

\* WindowBuilder::with_inner_size, read back by window.inner_size()
InnerSize == [width |-> 2000, height |-> 2000]

\* the speed State::new gives the controller, in table steps (see above)
Speed == TrigStep

\* CameraUniform::update_view_proj
update_view_proj(self, camera) ==
    [self EXCEPT !.view_proj = build_view_projection_matrix(camera)]

\* new_size.width as f32 / new_size.height as f32
AspectOf(new_size) == RDiv(Rat(new_size.width, 1), Rat(new_size.height, 1))

\* State::new: the fields of State the camera and the loop read or write
State_new ==
    LET size == InnerSize
        camera ==
            [eye |-> Vec(Zero, Zero, Rat(2, 1)),
             target |-> Vec(Zero, Zero, Zero),
             up |-> Vec(Zero, One, Zero),
             aspect |-> AspectOf(size),
             fovy |-> Rat(45, 1),
             znear |-> Rat(1, 10),
             zfar |-> Rat(100, 1),
             rotation |-> Vec(Zero, Zero, Zero)]
        camera_uniform == [view_proj |-> build_view_projection_matrix(camera)]
    IN  [camera |-> camera,
         camera_uniform |-> camera_uniform,
         camera_buffer |-> camera_uniform,
         camera_controller |-> CameraController_new(Speed),
         surface |-> [configured |-> FALSE, width |-> 0, height |-> 0],
         config |-> [width |-> size.width, height |-> size.height],
         size |-> size,
         clear_color |-> [r |-> Rat(1, 10), g |-> Rat(2, 10),
                          b |-> Rat(3, 10), a |-> One]]

\* State::resize with `||` for `&&` in the guard
resize_either(self, new_size) ==
    IF new_size.width > 0 \/ new_size.height > 0
    THEN [self EXCEPT
            !.size = new_size,
            !.config = [width |-> new_size.width, height |-> new_size.height],
            !.surface = [configured |-> TRUE, width |-> new_size.width,
                         height |-> new_size.height],
            !.camera.aspect = AspectOf(new_size)]
    ELSE self

\* State::resize
resize(self, new_size) ==
    IF new_size.width > 0 /\ new_size.height > 0
    THEN [self EXCEPT
            !.size = new_size,
            !.config = [width |-> new_size.width, height |-> new_size.height],
            !.surface = [configured |-> TRUE, width |-> new_size.width,
                         height |-> new_size.height],
            !.camera.aspect = AspectOf(new_size)]
    ELSE self

\* State::input: self and the return value
input(self, event) ==
    LET s1 == [self EXCEPT !.camera_controller =
                   process_events(self.camera_controller, event).self]
    IN  IF event.type = "CursorMoved"
        THEN [self |-> [s1 EXCEPT !.clear_color =
                          [r |-> RDiv(Rat(event.x, 1), Rat(s1.size.width, 1)),
                           g |-> RDiv(Rat(event.y, 1), Rat(s1.size.height, 1)),
                           b |-> Rat(3, 10), a |-> One]],
              ret |-> TRUE]
        ELSE IF event.type = "KeyboardInput"
        THEN [self |-> s1,
              ret |-> (event.physical_key = "Space" /\ event.state = "Pressed")]
        ELSE [self |-> s1, ret |-> FALSE]

\* write_camera with line 399 before line 398: the buffer gets the uniform
\* of the frame before
write_camera_stale(self, camera) ==
    [self EXCEPT
        !.camera = camera,
        !.camera_uniform = update_view_proj(self.camera_uniform, camera),
        !.camera_buffer = self.camera_uniform]

\* lines 398-399: the uniform rebuilt from the camera and written to the
\* buffer
write_camera(self, camera) ==
    [self EXCEPT
        !.camera = camera,
        !.camera_uniform = update_view_proj(self.camera_uniform, camera),
        !.camera_buffer = update_view_proj(self.camera_uniform, camera)]

\* State::update
update(self) ==
    write_camera(self, update_camera(self.camera_controller, self.camera))

\* State::render, where result is Ok or the error of get_current_texture on
\* line 403: the render passes it records and submits, each with the buffer
\* of its bind group and its clear colour, and the value it returns
render(self, result) ==
    [passes |-> IF result = "Ok"
                THEN << [camera_buffer |-> self.camera_buffer,
                         clear_color |-> self.clear_color] >>
                ELSE << >>,
     ret |-> result]

----------------------------------------------------------------------------
(* the event loop of run *)

VARIABLES
    state,               \* `state` of run: the State
    surface_configured,  \* `surface_configured` of run
    exited,              \* control_flow.exit() was called
    held,                \* keys physically down
    recent,              \* per intent, the state of the latest event on one
                         \* of its keys
    last,                \* the latest window event: its type, whether
                         \* State::update ran for it, and what
                         \* process_events returned
    frame                \* what the handler of the latest window event ran
                         \* of a frame: the steps in their order, and the
                         \* render passes issued

vars == <<state, surface_configured, exited, held, recent, last, frame>>

\* the intent flags of CameraController
Intents ==
    {"is_forward_pressed", "is_backward_pressed", "is_left_pressed",
     "is_right_pressed", "is_up_pressed", "is_down_pressed",
     "is_zcw_pressed", "is_zccw_pressed", "is_debug_pressed"}

\* the key patterns of process_events: key code -> the intent it is bound to
Binding ==
    [k \in {"KeyW", "ArrowUp", "KeyA", "ArrowLeft", "KeyS", "ArrowDown",
            "KeyD", "ArrowRight", "KeyE", "KeyQ", "KeyC", "KeyZ",
            "Backquote"} |->
        CASE k \in {"KeyW", "ArrowUp"}    -> "is_forward_pressed"
          [] k \in {"KeyA", "ArrowLeft"}  -> "is_left_pressed"
          [] k \in {"KeyS", "ArrowDown"}  -> "is_backward_pressed"
          [] k \in {"KeyD", "ArrowRight"} -> "is_right_pressed"
          [] k = "KeyE"      -> "is_up_pressed"
          [] k = "KeyQ"      -> "is_down_pressed"
          [] k = "KeyC"      -> "is_zcw_pressed"
          [] k = "KeyZ"      -> "is_zccw_pressed"
          [] k = "Backquote" -> "is_debug_pressed"]

BoundKeys == DOMAIN Binding

\* key codes with no binding in process_events, and a key event whose
\* physical key is PhysicalKey::Unidentified
UnboundKeys == {"Escape", "Space", "KeyX", "Unidentified"}

ElementState == {"Pressed", "Released"}

SurfaceErrors == {"Lost", "Outdated", "OutOfMemory", "Timeout"}

KeyEvent(k, s) == [type |-> "KeyboardInput", physical_key |-> k, state |-> s]

\* no step of a frame was run
NoFrame == [steps |-> << >>, passes |-> << >>]

\* rotation within the bounds of the model
InBounds(rotation) ==
    /\ RGe(rotation[1], RMul(Rat(-MaxPitchUp, 1), Speed))
    /\ RLe(rotation[1], RMul(Rat(MaxPitchDown, 1), Speed))
    /\ RGe(rotation[2], RMul(Rat(-MaxYaw, 1), Speed))
    /\ RLe(rotation[2], RMul(Rat(MaxYaw, 1), Speed))
    /\ RGe(rotation[3], RMul(Rat(-MaxRoll, 1), Speed))
    /\ RLe(rotation[3], RMul(Rat(MaxRoll, 1), Speed))

Init ==
    /\ state = State_new
    /\ surface_configured = FALSE
    /\ exited = FALSE
    /\ held = {}
    /\ recent = [i \in Intents |-> FALSE]
    /\ last = [type |-> "None", updated |-> FALSE, ret |-> FALSE]
    /\ frame = NoFrame

\* lines 87-88 and 397-399: the steps of a frame in the order they are
\* called, after_update being the State that State::update leaves; render
\* begins its pass only if get_current_texture succeeds
FrameOf(after_update, result) ==
    [steps |-> <<"update_camera", "update_view_proj", "write_buffer">>
               \o (IF result = "Ok" THEN <<"begin_render_pass">> ELSE << >>),
     passes |-> render(after_update, result).passes]

\* lines 88-104: the match on the result of state.render()
match_render(self, result) ==
    IF result \in {"Lost", "Outdated"} THEN resize(self, self.size) ELSE self

\* the closure of event_loop.run has handled `event`: the State it leaves,
\* the two locals of run, and the record of the event
Handled(event, new_state, configured, exit, updated) ==
    /\ state' = new_state
    /\ surface_configured' = configured
    /\ exited' = exit
    /\ last' = [type |-> event.type,
                updated |-> updated,
                ret |-> process_events(state.camera_controller, event).ret]

\* lines 63-74 for a key event: consumed by State::input (Space pressed),
\* or Escape pressed exits
OnKey(event, in) ==
    Handled(event, in.self, surface_configured,
            exited \/ ( /\ ~in.ret
                        /\ event.state = "Pressed"
                        /\ event.physical_key = "Escape" ),
            FALSE)

\* a key goes down (or repeats) or up
KeyboardInput(k, s) ==
    /\ ~exited
    /\ IF s = "Pressed"
       THEN k \in held \/ Cardinality(held) < MaxHeld
       ELSE k \in held
    /\ OnKey(KeyEvent(k, s), input(state, KeyEvent(k, s)))
    /\ frame' = NoFrame
    /\ held' = IF s = "Pressed" THEN held \cup {k} ELSE held \ {k}
    /\ recent' = IF k \in BoundKeys
                 THEN [recent EXCEPT ![Binding[k]] = (s = "Pressed")]
                 ELSE recent

\* lines 75-78
OnResized(event, in) ==
    Handled(event,
            IF in.ret THEN in.self
            ELSE resize(in.self, [width |-> event.width,
                                  height |-> event.height]),
            surface_configured \/ ~in.ret,
            exited, FALSE)

Resized(w, h) ==
    /\ ~exited
    /\ OnResized([type |-> "Resized", width |-> w, height |-> h],
                 input(state, [type |-> "Resized", width |-> w, height |-> h]))
    /\ frame' = NoFrame
    /\ UNCHANGED <<held, recent>>

\* lines 87-104: State::update has run and left after_update; then
\* State::render and the match on its result
OnFrame(event, after_update, result) ==
    /\ Handled(event, match_render(after_update, result),
               surface_configured, exited \/ result = "OutOfMemory", TRUE)
    /\ frame' = FrameOf(after_update, result)

\* lines 79-105; result is what state.render() returns if it is called
OnRedrawRequested(event, in, result) ==
    IF ~in.ret /\ surface_configured
    THEN OnFrame(event, update(in.self), result)
    ELSE /\ Handled(event, in.self, surface_configured, exited, FALSE)
         /\ frame' = NoFrame

RedrawRequested(result) ==
    /\ ~exited
    /\ InBounds(Accumulate(state.camera_controller, state.camera.rotation))
    /\ OnRedrawRequested([type |-> "RedrawRequested"],
                         input(state, [type |-> "RedrawRequested"]), result)
    /\ UNCHANGED <<held, recent>>

\* lines 65-74
OnCloseRequested(event, in) ==
    Handled(event, in.self, surface_configured, exited \/ ~in.ret, FALSE)

CloseRequested ==
    /\ ~exited
    /\ OnCloseRequested([type |-> "CloseRequested"],
                        input(state, [type |-> "CloseRequested"]))
    /\ frame' = NoFrame
    /\ UNCHANGED <<held, recent>>

\* lines 63 and 106: consumed by State::input
OnCursorMoved(event, in) ==
    Handled(event, in.self, surface_configured, exited, FALSE)

CursorMoved(x, y) ==
    /\ ~exited
    /\ OnCursorMoved([type |-> "CursorMoved", x |-> x, y |-> y],
                     input(state, [type |-> "CursorMoved", x |-> x, y |-> y]))
    /\ frame' = NoFrame
    /\ UNCHANGED <<held, recent>>

\* one key per intent
CameraKeys ==
    {"KeyW", "KeyS", "KeyA", "KeyD", "KeyE", "KeyQ", "KeyC", "KeyZ",
     "Backquote"}

\* the camera driven by its keys, frame after frame
Next ==
    \/ \E k \in CameraKeys, s \in ElementState : KeyboardInput(k, s)
    \/ Resized(InnerSize.width, InnerSize.height)
    \/ RedrawRequested("Ok")

Spec == Init /\ [][Next]_vars

\* every key of the keyboard and the events that are not key events; the
\* surface is never configured, so no frame is drawn
NextInput ==
    \/ \E k \in BoundKeys \cup UnboundKeys, s \in ElementState :
          KeyboardInput(k, s)
    \/ \E x, y \in {0, 500} : CursorMoved(x, y)
    \/ RedrawRequested("Ok")
    \/ CloseRequested

SpecInput == Init /\ [][NextInput]_vars

\* widths and heights of Resized events
Dims == {0, 1000, 2000}

LoopKeys == {"KeyD", "Escape", "Space"}

\* the whole loop: resizes, frames with every result of render, close
NextLoop ==
    \/ \E k \in LoopKeys, s \in ElementState : KeyboardInput(k, s)
    \/ \E w, h \in Dims : Resized(w, h)
    \/ \E result \in {"Ok"} \cup SurfaceErrors : RedrawRequested(result)
    \/ CursorMoved(500, 250)
    \/ CloseRequested

SpecLoop == Init /\ [][NextLoop]_vars

\* the controllers with every combination of the nine intents
Controllers ==
    {[f \in Intents \cup {"speed"} |->
         IF f = "speed" THEN Speed ELSE f \in on] : on \in SUBSET Intents}

\* the surface is configured and the loop starts with any of the
\* combinations of intents in force
InitIntents ==
    /\ \E c \in Controllers :
          /\ state = [resize(State_new, InnerSize) EXCEPT
                         !.camera_controller = c]
          /\ held = {k \in CameraKeys : c[Binding[k]]}
          /\ recent = [i \in Intents |-> c[i]]
    /\ surface_configured = TRUE
    /\ exited = FALSE
    /\ last = [type |-> "None", updated |-> FALSE, ret |-> FALSE]
    /\ frame = NoFrame

\* frame after frame with the intents as they are
NextIntents == RedrawRequested("Ok")

SpecIntents == InitIntents /\ [][NextIntents]_vars

\* accumulated pitches k * PI / 12: below zero, the four ends of the two
\* ranges of lines 225-226, and beyond a full turn
Pitches == {RMul(Rat(k, 12), PI) : k \in -8 .. 32}

\* the loop with the surface configured and the camera at any of the pitches
InitPitch ==
    /\ \E p \in Pitches :
          state = [resize(State_new, InnerSize) EXCEPT !.camera.rotation[1] = p]
    /\ surface_configured = TRUE
    /\ exited = FALSE
    /\ held = {}
    /\ recent = [i \in Intents |-> FALSE]
    /\ last = [type |-> "None", updated |-> FALSE, ret |-> FALSE]
    /\ frame = NoFrame

\* the keys of pitch and roll
PitchKeys == {"KeyQ", "KeyE", "KeyC"}

NextPitch ==
    \/ \E k \in PitchKeys, s \in ElementState : KeyboardInput(k, s)
    \/ RedrawRequested("Ok")

SpecPitch == InitPitch /\ [][NextPitch]_vars

----------------------------------------------------------------------------
(* properties *)

\* |target - eye|
Distance(camera) == Magnitude(VSub(camera.target, camera.eye))

\* the step just taken ran State::update, and with it update_camera
Updated == last.type = "RedrawRequested" /\ last.updated

Controller == state.camera_controller

\* C1: an update with the forward intent active (backward inactive) and
\* |target - eye| > speed makes |target - eye| smaller by speed; an update
\* with the backward intent active (forward inactive) makes it larger by
\* speed.
C1_DollyChangesRadius ==
    [][Updated' =>
         LET before == Distance(state.camera)
             after == Distance(state'.camera)
             speed == Controller.speed
         IN  /\ ( /\ Controller.is_forward_pressed
                  /\ ~Controller.is_backward_pressed
                  /\ RGt(before, speed) )
                => REq(after, RSub(before, speed))
             /\ ( /\ Controller.is_backward_pressed
                  /\ ~Controller.is_forward_pressed )
                => REq(after, RAdd(before, speed))]_vars

\* C2: an update with every intent false leaves eye and rotation unchanged,
\* for every pose, the initial pose of State::new included.
C2_IdleUpdateKeepsPose ==
    [][(Updated' /\ \A i \in Intents : ~Controller[i]) =>
         /\ state'.camera.eye = state.camera.eye
         /\ state'.camera.rotation = state.camera.rotation]_vars

\* C3: an update with neither the forward nor the backward intent active
\* leaves |target - eye| as it was, whatever the other intents are.
C3_RotationKeepsDistance ==
    [][( /\ Updated'
         /\ ~Controller.is_forward_pressed
         /\ ~Controller.is_backward_pressed ) =>
         REq(Distance(state'.camera), Distance(state.camera))]_vars

C3_Witness ==
    /\ Updated
    /\ ~Controller.is_forward_pressed /\ ~Controller.is_backward_pressed
    /\ Controller.is_down_pressed /\ Controller.is_right_pressed
    /\ state.camera.rotation[1] = Speed
    /\ state.camera.rotation[2] = Speed
    /\ REq(Distance(state.camera), Rat(2, 1))

\* C4: |target - eye| starts above 0 and never becomes <= 0, whatever the
\* intents of the updates are.
C4_EyeNeverReachesTarget == RGt(Distance(state.camera), Zero)

C4_Witness ==
    /\ Updated
    /\ Controller.is_forward_pressed
    /\ state.camera.rotation[1] = RMul(Rat(2, 1), Speed)
    /\ RGt(Distance(state.camera), Zero)

\* 1 if the flag is set, else 0
Bit(flag) == IF flag THEN One ELSE Zero

\* C8: an update changes rotation.y by speed * (right - left), rotation.x by
\* speed * (down - up) and rotation.z by speed * (cw - ccw), each flag
\* counted as 0 or 1, with no clamp and no wrap.
C8_AnglesStepBySpeed ==
    [][Updated' =>
         LET old == state.camera.rotation
             new == state'.camera.rotation
             c == Controller
             step(plus, minus) == RMul(c.speed, RSub(Bit(plus), Bit(minus)))
         IN  /\ new[2] = RAdd(old[2], step(c.is_right_pressed,
                                           c.is_left_pressed))
             /\ new[1] = RAdd(old[1], step(c.is_down_pressed,
                                           c.is_up_pressed))
             /\ new[3] = RAdd(old[3], step(c.is_zcw_pressed,
                                           c.is_zccw_pressed))]_vars

\* the pitch has gone past a full turn
C8_Witness ==
    /\ Updated
    /\ Controller.is_down_pressed
    /\ RGt(state.camera.rotation[1], TwoPI)

\* C9: after an update with the pitch away from the pi/2 singularities, up
\* is orthogonal to forward = target - eye: |up . forward| <= 1e-4.
C9_UpOrthogonalToForward ==
    (Updated /\ ~REq(Cos(state.camera.rotation[1]), Zero)) =>
        RLe(RAbs(Dot(state.camera.up,
                     VSub(state.camera.target, state.camera.eye))),
            Rat(1, 10000))

\* C5: a key event on a bound key makes process_events return true, sets
\* the one intent flag bound to the key to pressed / released, and leaves the
\* other eight flags and speed as they were.
C5_BoundKeySetsItsFlag ==
    [][\A k \in BoundKeys, s \in ElementState :
         KeyboardInput(k, s) =>
           /\ last'.ret = TRUE
           /\ Controller'[Binding[k]] = (s = "Pressed")
           /\ \A i \in Intents \ {Binding[k]} : Controller'[i] = Controller[i]
           /\ Controller'.speed = Controller.speed]_vars

\* E went down while W was held: its flag is set, the flag of W untouched
C5_Witness ==
    /\ last.type = "KeyboardInput" /\ last.ret
    /\ held = {"KeyW", "KeyE"}
    /\ Controller.is_up_pressed /\ Controller.is_forward_pressed
    /\ \A i \in Intents \ {"is_up_pressed", "is_forward_pressed"} :
          ~Controller[i]

\* C6: an event that is not a key event on a bound key makes process_events
\* return false and leaves every flag and speed as they were.
C6_OtherEventsIgnored ==
    [][( \/ last'.type \in {"CursorMoved", "RedrawRequested",
                            "CloseRequested", "Resized"}
         \/ \E k \in UnboundKeys, s \in ElementState : KeyboardInput(k, s) )
       => /\ last'.ret = FALSE
          /\ Controller' = Controller]_vars

\* Space went down while W was held
C6_Witness ==
    /\ last.type = "KeyboardInput" /\ ~last.ret
    /\ held = {"KeyW", "Space"}
    /\ Controller.is_forward_pressed

\* C7: every intent flag is the pressed / released state of the latest
\* event on a key bound to it, false before the first; so the flag is false
\* after W is released while ArrowUp is still held.
C7_FlagIsLatestEvent == \A i \in Intents : Controller[i] = recent[i]

C7_Witness ==
    /\ "ArrowUp" \in held
    /\ "KeyW" \notin held
    /\ ~Controller.is_forward_pressed

\* the fields of Camera but aspect
PoseFields == {"eye", "target", "up", "rotation", "fovy", "znear", "zfar"}

\* C10: a resize with a zero width or height changes nothing of the State
\* (size, surface configuration, camera.aspect); a resize with both above
\* zero sets aspect = width / height and no other field of the camera pose.
C10_ResizeRejectsZero ==
    [][\A w, h \in Dims :
         Resized(w, h) =>
           IF w = 0 \/ h = 0
           THEN state' = state
           ELSE /\ state'.camera.aspect = Rat(w, h)
                /\ \A f \in PoseFields : state'.camera[f] = state.camera[f]]_vars

\* a Resized with a zero dimension was handled and the State is untouched
C10_Witness ==
    /\ last.type = "Resized"
    /\ surface_configured
    /\ ~state.surface.configured
    /\ state = State_new

\* the pose of the camera: the fields update_camera may write, and target
Pose(camera) ==
    <<camera.eye, camera.up, camera.rotation, camera.target>>

\* the controller with the debug intent the other way round
ToggleDebug(self) ==
    [self EXCEPT !.is_debug_pressed = ~self.is_debug_pressed]

\* C11: for every pose and every combination of the other eight intents,
\* update_camera leaves the same eye, up, rotation and target whether the
\* debug intent is active or not.
C11_DebugChangesNoState ==
    [][Updated' =>
         Pose(state'.camera)
           = Pose(update_camera(ToggleDebug(Controller), state.camera))]_vars

\* a frame with the debug intent and pitch, yaw and roll intents active
C11_Witness ==
    /\ Updated
    /\ Controller.is_debug_pressed
    /\ Controller.is_down_pressed /\ Controller.is_right_pressed
    /\ Controller.is_zcw_pressed /\ Controller.is_forward_pressed
    /\ state.camera.rotation = Vec(Speed, Speed, Speed)
    /\ ~VHasNaN(state.camera.up)

Degenerate(camera) == REq(Cos(camera.rotation[1]), Zero)

InFlipRanges(x) ==
    \/ RLt(RMul(Rat(3, 12), PI), x) /\ RLe(x, RMul(Rat(6, 12), PI))
    \/ RLe(RMul(Rat(9, 12), PI), x) /\ RLt(x, RMul(Rat(18, 12), PI))

\* the up of recalculate_up for the camera, with the provisional up negated
\* or not
UpWith(camera, forward, negated) ==
    RollAbout(VScale(UpOf(forward, RightOf(forward)),
                     IF negated THEN RNeg(One) ELSE One),
              forward, Dot(forward, forward),
              Cos(camera.rotation[3]), Sin(camera.rotation[3]))

\* C13: recalculate_up negates the provisional up exactly when rotation.x
\* reduced into [0, 2 pi) lies in (pi/4, pi/2] or [3 pi/4, 3 pi/2), for
\* negative pitches and pitches beyond 2 pi too; at exactly pi/4 and exactly
\* 3 pi/2, and everywhere else, it does not negate.  At pi/2 and 3 pi/2 the
\* up is NaN either way, so the condition of lines 225-226 is compared too.
C13_FlipRanges ==
    [][Updated' =>
         LET x == RemEuclid(state'.camera.rotation[1], TwoPI)
         IN  /\ PitchFlips(x) <=> InFlipRanges(x)
             /\ state'.camera.up =
                   UpWith(state'.camera,
                          VSub(state'.camera.target, state'.camera.eye),
                          InFlipRanges(x))]_vars

\* an update at exactly pi/4 + 2 pi, where the up is a vector and not negated
C13_Witness ==
    /\ Updated
    /\ state.camera.rotation[1] = RMul(Rat(27, 12), PI)
    /\ ~VHasNaN(state.camera.up)
    /\ state.camera.up # VScale(state.camera.up, RNeg(One))
    /\ state.camera.up =
          UpWith(state.camera, VSub(state.camera.target, state.camera.eye),
                 FALSE)

\* C14: in every frame that is rendered the steps run once each in the
\* order update_camera, build of the view-projection matrix from the updated
\* pose, write of that matrix to the camera buffer, render pass; the update
\* uses the intents as the key events before the RedrawRequested left them;
\* a RedrawRequested before the surface is configured runs none of the steps.
C14_FrameOrder ==
    [][last'.type = "RedrawRequested" =>
         IF surface_configured
         THEN Len(frame'.passes) > 0 =>
                /\ frame'.steps = <<"update_camera", "update_view_proj",
                                    "write_buffer", "begin_render_pass">>
                /\ Len(frame'.passes) = 1
                /\ \A i \in Intents : Controller[i] = recent[i]
                /\ Pose(state'.camera)
                     = Pose(update_camera(Controller, state.camera))
                /\ state'.camera_uniform.view_proj
                     = build_view_projection_matrix(state'.camera)
                /\ state'.camera_buffer = state'.camera_uniform
                /\ frame'.passes[1].camera_buffer = state'.camera_buffer
         ELSE /\ frame' = NoFrame
              /\ state' = state]_vars

\* a rendered frame after D went down: the yaw has stepped and the pass draws
\* with the matrix of the stepped pose
C14_Witness ==
    /\ Updated
    /\ Len(frame.passes) = 1
    /\ Controller.is_right_pressed
    /\ state.camera.rotation[2] = Speed
    /\ frame.passes[1].camera_buffer.view_proj
          = build_view_projection_matrix(state.camera)

\* C15: State::update and State::render run only after the surface has been
\* configured, that is after State::resize has handled a Resized with width
\* and height above zero; a Resized with a zero dimension, which
\* State::resize rejects, does not enable them.
C15_FramesOnlyOnConfiguredSurface ==
    [][Updated' => state.surface.configured]_vars

====
